---- MODULE Spec2Model ----
(***************************************************************************)
(* The movie catalogue routes of src/routes/movies.py: get_movies (the     *)
(* paginated list) and get_movie_by_id (the detail lookup), with the       *)
(* response schemas of src/schemas/movies.py.                              *)
(*                                                                         *)
(* The movies table is a sequence of rows in the stable order in which the *)
(* database returns them (the page query has no ORDER BY; the order is the *)
(* one the store keeps between calls).  Each request handler runs in a     *)
(* slot; its local variables are the fields of req[r].  A handler is cut   *)
(* into steps at its awaits: the count query and the page query of         *)
(* get_movies are two steps, so other requests (and, in SpecW, writers of  *)
(* the same table) interleave between them.                                *)
(***************************************************************************)
EXTENDS Integers, Sequences, FiniteSets, TLC

VARIABLES db, req, client, writes

vars == <<db, req, client, writes>>

-----------------------------------------------------------------------------
(* Bounds of the model. *)

\* largest table the sequential and the client specifications start from
MaxItems == 25
\* largest table of the concurrent specification
MaxConcItems == 2
\* largest table the writer specification starts from
MaxWriterItems == 3
\* concurrent request slots of SpecConc
MaxSlots == 2
\* writes other clients perform in one behaviour of SpecW
MaxWrites == 2

-----------------------------------------------------------------------------
(* Program constants. *)

PageMin == 1
PerPageMin == 1
PerPageMax == 20
HTTP_200_OK == 200
HTTP_404_NOT_FOUND == 404
HTTP_422_UNPROCESSABLE == 422

base_url == "/api/v1/theater/movies/"
NoMoviesDetail == "No movies found."
MovieNotFoundDetail == "Movie with the given ID was not found."
\* Python's None in the optional str fields prev_page and next_page
None == "<None>"

-----------------------------------------------------------------------------
(* Values.  A number carries its Python type, so that float(x) is a real   *)
(* conversion: the table stores budget as a Decimal and the schema holds a *)
(* float.                                                                  *)

Decimal(n) == [type |-> "Decimal", val |-> n]
Float(n) == [type |-> "float", val |-> n]

\* float(x) of a Decimal or a float
ToFloatNoConversion(x) == x
ToFloat(x) == Float(x.val)

\* the row the table holds under primary key i
MovieModel(i) ==
    [ id |-> i,
      name |-> "name-" \o ToString(i),
      date |-> 20000100 + i,
      score |-> Float(50 + i),
      genre |-> "Drama, Action",
      overview |-> "overview-" \o ToString(i),
      crew |-> "crew-" \o ToString(i),
      orig_title |-> "orig-" \o ToString(i),
      status |-> "Released",
      orig_lang |-> "English",
      budget |-> Decimal(1000 * i),
      revenue |-> Float(2000 * i),
      country |-> "AU" ]

\* MovieDetailResponseSchema(...) as get_movies builds it for each row
ListItemSchema(movie) ==
    [ id |-> movie.id,
      name |-> movie.name,
      date |-> movie.date,
      score |-> movie.score,
      genre |-> movie.genre,
      overview |-> movie.overview,
      crew |-> movie.crew,
      orig_title |-> movie.orig_title,
      status |-> movie.status,
      orig_lang |-> movie.orig_lang,
      budget |-> ToFloat(movie.budget),
      revenue |-> movie.revenue,
      country |-> movie.country ]

\* MovieDetailResponseSchema(...) as get_movie_by_id builds it
DetailSchema(movie) ==
    [ id |-> movie.id,
      name |-> movie.name,
      date |-> movie.date,
      score |-> movie.score,
      genre |-> movie.genre,
      overview |-> movie.overview,
      crew |-> movie.crew,
      orig_title |-> movie.orig_title,
      status |-> movie.status,
      orig_lang |-> movie.orig_lang,
      budget |-> ToFloat(movie.budget),
      revenue |-> movie.revenue,
      country |-> movie.country ]

-----------------------------------------------------------------------------
(* The queries the handlers issue. *)

\* select(func.count()).select_from(MovieModel) ... .scalar()
CountRows(table) == Len(table)

\* select(MovieModel).offset(offset).limit(limit) ... .scalars().all()
SelectPageIgnoringOffset(table, offset, limit) ==
    LET n == IF Len(table) < limit THEN Len(table) ELSE limit
    IN  [i \in 1..n |-> table[i]]
SelectPageNoLimit(table, offset, limit) ==
    LET n == IF Len(table) - offset < 0 THEN 0 ELSE Len(table) - offset
    IN  [i \in 1..n |-> table[offset + i]]
SelectPage(table, offset, limit) ==
    LET n == IF Len(table) - offset < 0 THEN 0
             ELSE IF Len(table) - offset < limit THEN Len(table) - offset
             ELSE limit
    IN  [i \in 1..n |-> table[offset + i]]

\* db.get(MovieModel, movie_id): the rows with that primary key (none or one)
GetRow(table, movie_id) ==
    SelectSeq(table, LAMBDA m : m.id = movie_id)

-----------------------------------------------------------------------------
(* The pure steps of get_movies. *)

OffsetOfNextPage(page, per_page) == page * per_page
Offset(page, per_page) == (page - 1) * per_page

TruncatedPages(total_items, per_page) == total_items \div per_page
TotalPages(total_items, per_page) == (total_items + per_page - 1) \div per_page

Link(page, per_page) ==
    base_url \o "?page=" \o ToString(page) \o "&per_page=" \o ToString(per_page)

PrevPage(page, per_page) ==
    IF page > 1 THEN Link(page - 1, per_page) ELSE None

NextPageOnLastToo(page, per_page, total_pages) ==
    IF page <= total_pages THEN Link(page + 1, per_page) ELSE None
NextPage(page, per_page, total_pages) ==
    IF page < total_pages THEN Link(page + 1, per_page) ELSE None

\* Query(1, ge=1) and Query(10, ge=1, le=20)
ValidQuery(page, per_page) ==
    /\ page >= PageMin
    /\ per_page >= PerPageMin
    /\ per_page <= PerPageMax

EmptyListOk ==
    [ status |-> HTTP_200_OK,
      body |-> [ movies |-> <<>>, prev_page |-> None, next_page |-> None,
                 total_pages |-> 0, total_items |-> 0 ] ]
\* raise HTTPException(404, "No movies found.") for an empty table
EmptyError == [status |-> HTTP_404_NOT_FOUND, detail |-> NoMoviesDetail]

RangeErrorOwnDetail ==
    [status |-> HTTP_404_NOT_FOUND, detail |-> "Page out of range."]
\* raise HTTPException(404, "No movies found.") for a page beyond the last
RangeError == [status |-> HTTP_404_NOT_FOUND, detail |-> NoMoviesDetail]

\* raise HTTPException(404, "Movie with the given ID was not found.")
MovieError == [status |-> HTTP_404_NOT_FOUND, detail |-> MovieNotFoundDetail]

\* the 422 of the framework for a query parameter out of range
ValidationError == [status |-> HTTP_422_UNPROCESSABLE, detail |-> "validation"]

MovieListResponseSchema(movies, prev_page, next_page, total_pages, total_items) ==
    [ status |-> HTTP_200_OK,
      body |-> [ movies |-> movies,
                 prev_page |-> prev_page,
                 next_page |-> next_page,
                 total_pages |-> total_pages,
                 total_items |-> total_items ] ]

MovieDetailResponse(movie) ==
    [ status |-> HTTP_200_OK, body |-> DetailSchema(movie) ]

NoResponse == [status |-> 0]

-----------------------------------------------------------------------------
(* The handlers.  req[r] holds the local variables of the handler running  *)
(* in slot r and, once pc = "done", the response it produced.              *)

Idle ==
    [ op |-> "none", pc |-> "idle", page |-> 0, per_page |-> 0, movie_id |-> 0,
      offset |-> 0, total_items |-> 0, total_pages |-> 0,
      response |-> NoResponse ]

\* GET /movies/?page=&per_page= arrives: the framework validates the query,
\* the handler computes offset and awaits the count query
GetMoviesCallSharedOffset(r, page, per_page) ==
    /\ req[r].pc = "idle"
    /\ req' = [q \in DOMAIN req |->
                 IF q = r
                 THEN IF ValidQuery(page, per_page)
                      THEN [Idle EXCEPT !.op = "get_movies", !.pc = "count",
                                        !.page = page, !.per_page = per_page,
                                        !.offset = Offset(page, per_page)]
                      ELSE [Idle EXCEPT !.op = "get_movies", !.pc = "done",
                                        !.page = page, !.per_page = per_page,
                                        !.response = ValidationError]
                 ELSE [req[q] EXCEPT !.offset = Offset(page, per_page)]]
    /\ UNCHANGED db
GetMoviesCall(r, page, per_page) ==
    /\ req[r].pc = "idle"
    /\ req' = [req EXCEPT ![r] =
                 IF ValidQuery(page, per_page)
                 THEN [Idle EXCEPT !.op = "get_movies", !.pc = "count",
                                   !.page = page, !.per_page = per_page,
                                   !.offset = Offset(page, per_page)]
                 ELSE [Idle EXCEPT !.op = "get_movies", !.pc = "done",
                                   !.page = page, !.per_page = per_page,
                                   !.response = ValidationError]]
    /\ UNCHANGED db

PageBeyondInclusive(page, total_pages) == page >= total_pages
PageBeyond(page, total_pages) == page > total_pages

\* the count query returns: the two 404 checks, total_pages, then the handler
\* awaits the page query
GetMoviesCount(r) ==
    /\ req[r].pc = "count"
    /\ LET total_items == CountRows(db)
           total_pages == TotalPages(total_items, req[r].per_page)
       IN  req' = [req EXCEPT ![r] =
                     IF total_items = 0
                     THEN [@ EXCEPT !.pc = "done", !.total_items = total_items,
                                    !.response = EmptyError]
                     ELSE IF PageBeyond(req[r].page, total_pages)
                     THEN [@ EXCEPT !.pc = "done", !.total_items = total_items,
                                    !.total_pages = total_pages,
                                    !.response = RangeError]
                     ELSE [@ EXCEPT !.pc = "fetch", !.total_items = total_items,
                                    !.total_pages = total_pages]]
    /\ UNCHANGED db

\* the page query returns: rows to schemas, the links, the response
GetMoviesFetch(r) ==
    /\ req[r].pc = "fetch"
    /\ LET q == req[r]
           movies == SelectPage(db, q.offset, q.per_page)
           movie_schemas == [i \in 1..Len(movies) |-> ListItemSchema(movies[i])]
       IN  req' = [req EXCEPT ![r] =
                     [@ EXCEPT !.pc = "done",
                               !.response = MovieListResponseSchema(
                                    movie_schemas,
                                    PrevPage(q.page, q.per_page),
                                    NextPage(q.page, q.per_page, q.total_pages),
                                    q.total_pages,
                                    q.total_items)]]
    /\ UNCHANGED db

\* GET /movies/{movie_id}/ arrives: the handler awaits db.get
GetMovieByIdCall(r, movie_id) ==
    /\ req[r].pc = "idle"
    /\ req' = [req EXCEPT ![r] =
                 [Idle EXCEPT !.op = "get_movie_by_id", !.pc = "get",
                              !.movie_id = movie_id]]
    /\ UNCHANGED db

\* db.get returns: 404 for None, the schema of the row otherwise
GetMovieByIdGet(r) ==
    /\ req[r].pc = "get"
    /\ LET found == GetRow(db, req[r].movie_id)
       IN  req' = [req EXCEPT ![r] =
                     [@ EXCEPT !.pc = "done",
                               !.response = IF found = <<>>
                                            THEN MovieError
                                            ELSE MovieDetailResponse(found[1])]]
    /\ UNCHANGED db

\* the response is sent and the session of the request released
Complete(r) ==
    /\ req[r].pc = "done"
    /\ req' = [req EXCEPT ![r] = Idle]
    /\ UNCHANGED db

-----------------------------------------------------------------------------
(* The tables and the inputs of the specifications. *)

IdStrides == {1, 2}

Table(n, stride) == [i \in 1..n |-> MovieModel(stride * i)]

ClientOff == [state |-> "off", per_page |-> 0, requests |-> 0, got |-> <<>>,
              link |-> None]

Pages == 0..(MaxItems + 1)
PerPages == 0..(PerPageMax + 1)
MovieIds == 0..(2 * MaxItems + 1)

-----------------------------------------------------------------------------
(* Spec: one request at a time over a table nobody writes. *)

Init ==
    /\ \E n \in 0..MaxItems, stride \in IdStrides : db = Table(n, stride)
    /\ req = [r \in {1} |-> Idle]
    /\ client = ClientOff
    /\ writes = 0

Next ==
    \/ \E r \in DOMAIN req, page \in Pages, per_page \in PerPages :
          GetMoviesCall(r, page, per_page) /\ UNCHANGED <<client, writes>>
    \/ \E r \in DOMAIN req : GetMoviesCount(r) /\ UNCHANGED <<client, writes>>
    \/ \E r \in DOMAIN req : GetMoviesFetch(r) /\ UNCHANGED <<client, writes>>
    \/ \E r \in DOMAIN req, movie_id \in MovieIds :
          GetMovieByIdCall(r, movie_id) /\ UNCHANGED <<client, writes>>
    \/ \E r \in DOMAIN req : GetMovieByIdGet(r) /\ UNCHANGED <<client, writes>>
    \/ \E r \in DOMAIN req : Complete(r) /\ UNCHANGED <<client, writes>>

Spec == Init /\ [][Next]_vars

-----------------------------------------------------------------------------
(* SpecConc: MaxSlots requests interleave over a table nobody writes. *)

ConcPages == 1..(MaxConcItems + 1)
ConcPerPages == 1..MaxConcItems
ConcMovieIds == 0..(MaxConcItems + 1)

InitConc ==
    /\ \E n \in 0..MaxConcItems : db = Table(n, 1)
    /\ req = [r \in 1..MaxSlots |-> Idle]
    /\ client = ClientOff
    /\ writes = 0

NextConc ==
    \/ \E r \in DOMAIN req, page \in ConcPages, per_page \in ConcPerPages :
          GetMoviesCall(r, page, per_page) /\ UNCHANGED <<client, writes>>
    \/ \E r \in DOMAIN req : GetMoviesCount(r) /\ UNCHANGED <<client, writes>>
    \/ \E r \in DOMAIN req : GetMoviesFetch(r) /\ UNCHANGED <<client, writes>>
    \/ \E r \in DOMAIN req, movie_id \in ConcMovieIds :
          GetMovieByIdCall(r, movie_id) /\ UNCHANGED <<client, writes>>
    \/ \E r \in DOMAIN req : GetMovieByIdGet(r) /\ UNCHANGED <<client, writes>>
    \/ \E r \in DOMAIN req : Complete(r) /\ UNCHANGED <<client, writes>>

SpecConc == InitConc /\ [][NextConc]_vars

-----------------------------------------------------------------------------
(* SpecClient: one client pages through the list.  It asks for page 1 and  *)
(* then for the page each next_page link names, until a response carries   *)
(* no next_page or is not a 200.                                           *)

\* the page and per_page a link of the list endpoint names
ParseLink(link) ==
    CHOOSE pq \in Pages \X PerPages : Link(pq[1], pq[2]) = link

ClientStart(per_page) ==
    /\ client.state = "init"
    /\ GetMoviesCall(1, 1, per_page)
    /\ client' = [client EXCEPT !.state = "waiting", !.per_page = per_page,
                                !.requests = 1]
    /\ UNCHANGED writes

ClientReceive ==
    /\ client.state = "waiting"
    /\ req[1].pc = "done"
    /\ Complete(1)
    /\ LET response == req[1].response
       IN  client' =
             IF response.status # HTTP_200_OK
             THEN [client EXCEPT !.state = "failed"]
             ELSE [client EXCEPT
                     !.state = IF response.body.next_page = None
                               THEN "stopped" ELSE "linked",
                     !.got = @ \o response.body.movies,
                     !.link = response.body.next_page]
    /\ UNCHANGED writes

ClientFollow ==
    /\ client.state = "linked"
    /\ LET pq == ParseLink(client.link)
       IN  GetMoviesCall(1, pq[1], pq[2])
    /\ client' = [client EXCEPT !.state = "waiting", !.requests = @ + 1]
    /\ UNCHANGED writes

InitClient ==
    /\ \E n \in 0..MaxItems, stride \in IdStrides : db = Table(n, stride)
    /\ req = [r \in {1} |-> Idle]
    /\ client = [ClientOff EXCEPT !.state = "init"]
    /\ writes = 0

NextClient ==
    \/ \E per_page \in PerPageMin..PerPageMax : ClientStart(per_page)
    \/ ClientReceive
    \/ ClientFollow
    \/ GetMoviesCount(1) /\ UNCHANGED <<client, writes>>
    \/ GetMoviesFetch(1) /\ UNCHANGED <<client, writes>>

SpecClient == InitClient /\ [][NextClient]_vars

-----------------------------------------------------------------------------
(* SpecW: one list request while other clients of the database insert and  *)
(* delete rows of the table, also between its two queries.                 *)

WriterPages == 1..(MaxWriterItems + 1)
WriterPerPages == 1..MaxWriterItems

\* the primary key the database gives the next inserted row
NewId(table) ==
    IF table = <<>> THEN 1
    ELSE 1 + (CHOOSE m \in {table[i].id : i \in 1..Len(table)} :
                 \A j \in 1..Len(table) : table[j].id <= m)

InsertMovie ==
    /\ writes < MaxWrites
    /\ db' = Append(db, MovieModel(NewId(db)))
    /\ writes' = writes + 1
    /\ UNCHANGED <<req, client>>

DeleteMovie(i) ==
    /\ writes < MaxWrites
    /\ i \in 1..Len(db)
    /\ db' = [k \in 1..(Len(db) - 1) |-> IF k < i THEN db[k] ELSE db[k + 1]]
    /\ writes' = writes + 1
    /\ UNCHANGED <<req, client>>

InitW ==
    /\ \E n \in 0..MaxWriterItems : db = Table(n, 1)
    /\ req = [r \in {1} |-> Idle]
    /\ client = ClientOff
    /\ writes = 0

NextW ==
    \/ \E page \in WriterPages, per_page \in WriterPerPages :
          GetMoviesCall(1, page, per_page) /\ UNCHANGED <<client, writes>>
    \/ GetMoviesCount(1) /\ UNCHANGED <<client, writes>>
    \/ GetMoviesFetch(1) /\ UNCHANGED <<client, writes>>
    \/ Complete(1) /\ UNCHANGED <<client, writes>>
    \/ InsertMovie
    \/ \E i \in 1..MaxWriterItems + MaxWrites : DeleteMovie(i)

SpecW == InitW /\ [][NextW]_vars

-----------------------------------------------------------------------------
(* The properties. *)

Min(a, b) == IF a < b THEN a ELSE b

\* ceil(a / b) for a > 0 and b >= 1: the smallest n with n * b >= a
CeilDiv(a, b) == CHOOSE n \in 1..a : n * b >= a /\ (n - 1) * b < a

\* the link the interface documents: <base_path>?page=<n>&per_page=<m>
DocumentedLink(n, m) ==
    "/api/v1/theater/movies/" \o "?page=" \o ToString(n)
        \o "&per_page=" \o ToString(m)

ListDone(r) == req[r].op = "get_movies" /\ req[r].pc = "done"
ListOk(r) == ListDone(r) /\ req[r].response.status = 200
ListValid(r) ==
    ListDone(r) /\ req[r].page >= 1 /\ req[r].per_page \in 1..20
DetailDone(r) == req[r].op = "get_movie_by_id" /\ req[r].pc = "done"

\* C1: for every table of total_items > 0 rows and every per_page in 1..20,
\* the total_pages a list response reports is ceil(total_items / per_page),
\* the smallest n with n * per_page >= total_items, never the truncated
\* quotient.
C1_TotalPagesIsCeiling ==
    \A r \in DOMAIN req :
        ListOk(r) =>
            LET body == req[r].response.body
            IN  /\ body.total_items = Len(db)
                /\ body.total_items > 0
                /\ req[r].per_page \in 1..20
                /\ body.total_pages = CeilDiv(body.total_items, req[r].per_page)
                /\ body.total_pages * req[r].per_page >= body.total_items
                /\ (body.total_pages - 1) * req[r].per_page < body.total_items

\* a list response for a table whose size is no multiple of per_page, where
\* the ceiling and the truncated quotient differ
C1_Witness ==
    \E r \in DOMAIN req :
        /\ ListOk(r)
        /\ Len(db) % req[r].per_page # 0
        /\ req[r].response.body.total_pages >= 3
        /\ req[r].response.body.total_pages
              = (Len(db) \div req[r].per_page) + 1

\* C2: in every successful list response prev_page is absent when page = 1
\* and otherwise the link to page - 1; next_page is absent when
\* page = total_pages and otherwise the link to page + 1; both links have
\* the documented form and carry the per_page of the request.
C2_NavigationLinks ==
    \A r \in DOMAIN req :
        ListOk(r) =>
            LET body == req[r].response.body
                page == req[r].page
                per_page == req[r].per_page
            IN  /\ page <= body.total_pages
                /\ body.prev_page = IF page = 1 THEN None
                                    ELSE DocumentedLink(page - 1, per_page)
                /\ body.next_page = IF page = body.total_pages THEN None
                                    ELSE DocumentedLink(page + 1, per_page)

\* a response for a middle page, which carries both links
C2_Witness ==
    \E r \in DOMAIN req :
        /\ ListOk(r)
        /\ req[r].page = 2
        /\ req[r].response.body.total_pages = 3
        /\ req[r].response.body.prev_page
              = "/api/v1/theater/movies/?page=1&per_page=10"
        /\ req[r].response.body.next_page
              = "/api/v1/theater/movies/?page=3&per_page=10"

\* C3: on a table nobody writes, a list request for a page in
\* [1, total_pages] fetches at offset (page - 1) * per_page with limit
\* per_page: it returns the rows at positions offset + 1 .. offset + k of
\* the table, k = min(per_page, total_items - offset).
C3_PageSlice ==
    \A r \in DOMAIN req :
        ListOk(r) =>
            LET movies == req[r].response.body.movies
                offset == (req[r].page - 1) * req[r].per_page
            IN  /\ req[r].offset = offset
                /\ offset >= 0
                /\ Len(movies) = Min(req[r].per_page, Len(db) - offset)
                /\ \A i \in 1..Len(movies) : movies[i].id = db[offset + i].id

\* the last, partly filled page of a table of several pages
C3_Witness ==
    \E r \in DOMAIN req :
        /\ ListOk(r)
        /\ req[r].page = 3
        /\ req[r].page = req[r].response.body.total_pages
        /\ Len(req[r].response.body.movies) > 1
        /\ Len(req[r].response.body.movies) < req[r].per_page

\* C4: on an empty table every list request with a valid page and per_page
\* is answered 404, never with a list response.
C4_EmptyIsNotFound ==
    \A r \in DOMAIN req :
        (ListValid(r) /\ Len(db) = 0) =>
            /\ req[r].response.status = 404
            /\ req[r].response.status # 200

\* a valid list request answered on an empty table
C4_Witness ==
    \E r \in DOMAIN req :
        /\ ListValid(r)
        /\ Len(db) = 0
        /\ req[r].page = 1
        /\ req[r].per_page = 10

\* C5: on a table of total_items > 0 rows a valid list request is answered
\* 404 when page > total_pages and 200 when page is in [1, total_pages],
\* the last page included.
C5_PageRange ==
    \A r \in DOMAIN req :
        (ListValid(r) /\ Len(db) > 0) =>
            LET total_pages == CeilDiv(Len(db), req[r].per_page)
            IN  /\ req[r].page > total_pages => req[r].response.status = 404
                /\ req[r].page <= total_pages => req[r].response.status = 200

\* the request for page total_pages + 1 has been answered
C5_Witness ==
    \E r \in DOMAIN req :
        /\ ListValid(r)
        /\ Len(db) > 0
        /\ req[r].page = CeilDiv(Len(db), req[r].per_page) + 1
        /\ req[r].page > 2
        /\ req[r].response.status = 404

\* the fields of a stored row other than budget
PassedFields ==
    { "id", "name", "date", "score", "genre", "overview", "crew",
      "orig_title", "status", "orig_lang", "revenue", "country" }

\* C6: get_movie_by_id answers an id the table holds with the row stored
\* under it, every field equal to the stored field and budget the float of
\* the stored budget; it answers an id the table does not hold with 404.
C6_DetailRoundTrip ==
    \A r \in DOMAIN req :
        DetailDone(r) =>
            LET rows == {i \in 1..Len(db) : db[i].id = req[r].movie_id}
                response == req[r].response
            IN  IF rows = {}
                THEN response.status = 404
                ELSE \A i \in rows :
                        /\ response.status = 200
                        /\ DOMAIN response.body = PassedFields \cup {"budget"}
                        /\ \A f \in PassedFields : response.body[f] = db[i][f]
                        /\ response.body.budget.type = "float"
                        /\ response.body.budget.val = db[i].budget.val

\* a stored row has been returned by its id
C6_Witness ==
    \E r \in DOMAIN req :
        /\ DetailDone(r)
        /\ req[r].response.status = 200
        /\ req[r].movie_id > 1
        /\ req[r].response.body.id = req[r].movie_id

\* C7: the three not-found cases are answered with status 404, and a list
\* request answered 404 carries the same status and message whether the
\* table is empty or the page lies beyond total_pages.
C7_NotFoundSignals ==
    \A r \in DOMAIN req :
        /\ (ListValid(r) /\ Len(db) = 0) =>
              req[r].response = [status |-> 404, detail |-> "No movies found."]
        /\ (ListValid(r) /\ Len(db) > 0
                /\ req[r].page > CeilDiv(Len(db), req[r].per_page)) =>
              req[r].response = [status |-> 404, detail |-> "No movies found."]
        /\ (DetailDone(r) /\ \A i \in 1..Len(db) : db[i].id # req[r].movie_id) =>
              /\ req[r].response.status = 404
              /\ DOMAIN req[r].response = {"status", "detail"}

\* a list request answered 404 for a page beyond the last of a table that
\* is not empty
C7_Witness ==
    \E r \in DOMAIN req :
        /\ ListValid(r)
        /\ Len(db) > 1
        /\ req[r].page = CeilDiv(Len(db), req[r].per_page) + 1
        /\ req[r].response.status = 404
        /\ req[r].response.detail = "No movies found."

\* get_movies run from its call to its response with nothing in between
GetMoviesAlone(table, page, per_page) ==
    IF ~ValidQuery(page, per_page) THEN ValidationError
    ELSE IF CountRows(table) = 0 THEN EmptyError
    ELSE LET total_pages == TotalPages(CountRows(table), per_page)
             movies == SelectPage(table, Offset(page, per_page), per_page)
         IN  IF PageBeyond(page, total_pages) THEN RangeError
             ELSE MovieListResponseSchema(
                      [i \in 1..Len(movies) |-> ListItemSchema(movies[i])],
                      PrevPage(page, per_page),
                      NextPage(page, per_page, total_pages),
                      total_pages,
                      CountRows(table))

\* get_movie_by_id run from its call to its response with nothing in between
GetMovieByIdAlone(table, movie_id) ==
    IF GetRow(table, movie_id) = <<>> THEN MovieError
    ELSE MovieDetailResponse(GetRow(table, movie_id)[1])

AloneResponse(table, q) ==
    IF q.op = "get_movies" THEN GetMoviesAlone(table, q.page, q.per_page)
    ELSE GetMovieByIdAlone(table, q.movie_id)

\* C8: the list and detail operations are read-only and stateless: no step
\* of any interleaving of requests changes the table, and every response,
\* 200 or 404, is the one the request produces when run alone on the table.
C8_ReadOnlyStateless ==
    [][ /\ db' = db
        /\ \A r \in DOMAIN req :
              req'[r].pc = "done" =>
                  req'[r].response = AloneResponse(db', req'[r]) ]_vars

\* two requests for different pages answered after their steps interleaved:
\* both are answered while neither has been completed
C8_Witness ==
    /\ ListOk(1)
    /\ ListDone(2)
    /\ req[1].page = 2
    /\ req[2].page = 3
    /\ req[1].per_page = 1
    /\ req[2].per_page = 1
    /\ req[2].response.status = 404

\* what the client holds after it received k responses
ClientReceived ==
    IF client.state = "waiting" THEN client.requests - 1 ELSE client.requests

C9_Safety ==
    Len(db) > 0 =>
        LET total_pages == CeilDiv(Len(db), client.per_page)
        IN  /\ client.state # "failed"
            /\ client.state # "init" =>
                  /\ client.requests \in 1..total_pages
                  /\ Len(client.got)
                        = Min(Len(db), ClientReceived * client.per_page)
                  /\ \A i \in 1..Len(client.got) : client.got[i].id = db[i].id
            /\ client.state = "stopped" =>
                  /\ client.requests = total_pages
                  /\ Len(client.got) = Len(db)
                  /\ \A i \in 1..Len(db) :
                        Cardinality({k \in 1..Len(client.got) :
                                        client.got[k].id = db[i].id}) = 1

\* C9: on a table of at least one row that nobody writes, a client that
\* asks for page 1 and then follows next_page gets a 200 at every step,
\* stops after exactly total_pages requests, and the movies it received,
\* in order, are the rows of the table in order, each exactly once.
C9_FollowNextCoversTable ==
    /\ []C9_Safety
    /\ <>(Len(db) = 0 \/ client.state = "stopped")

\* the client has stopped after three requests that covered 25 rows
C9_Witness ==
    /\ client.state = "stopped"
    /\ client.requests = 3
    /\ client.per_page = 10
    /\ Len(client.got) = Len(db)
    /\ Len(db) > 20

\* C10 as claimed: whatever other clients insert or delete between the
\* count query and the page query, a 200 list response holds at least 1 and
\* at most min(per_page, total_items - offset) movies, for the total_items
\* of that response.
C10_ConsistentUnderWrites ==
    \A r \in DOMAIN req :
        ListOk(r) =>
            LET body == req[r].response.body
            IN  /\ Len(body.movies) >= 1
                /\ Len(body.movies)
                      <= Min(req[r].per_page, body.total_items - req[r].offset)

\* C10 as amended: a 200 list response holds min(per_page, max(0, N - offset))
\* movies, N the number of rows of the table when the page query runs, so
\* between 0 and per_page; it holds at least 1 and at most
\* min(per_page, total_items - offset) when N is the total_items it reports.
C10_CountFollowsTableAtFetch ==
    [][ \A r \in DOMAIN req :
          (req[r].pc = "fetch" /\ req'[r].pc = "done") =>
              LET n == Len(req'[r].response.body.movies)
                  left == Len(db) - req[r].offset
                  total_items == req'[r].response.body.total_items
              IN  /\ req'[r].response.status = 200
                  /\ n = Min(req[r].per_page, IF left < 0 THEN 0 ELSE left)
                  /\ n >= 0
                  /\ n <= req[r].per_page
                  /\ Len(db) = total_items =>
                        /\ n >= 1
                        /\ n <= Min(req[r].per_page,
                                    total_items - req[r].offset) ]_vars

\* a 200 response without movies: the rows of the page were deleted between
\* the two queries
C10_Witness ==
    \E r \in DOMAIN req :
        /\ ListOk(r)
        /\ writes > 0
        /\ req[r].response.body.movies = <<>>
        /\ req[r].response.body.total_items > 1

-----------------------------------------------------------------------------
(* SpecClientFair: the server answers every request it accepted and the    *)
(* client issues the request it decided on.                                *)

SpecClientFair == SpecClient /\ WF_vars(NextClient)

====
